---- MODULE Spec2Model ----
(***************************************************************************)
(* Model of the WebThon compiler (src/compiler.py): tokenize, parse,       *)
(* execute_nodes, generate_html and compile_webthon_file.                  *)
(*                                                                         *)
(* A Python str is a sequence of one-character strings, so that the regex  *)
(* of the tokenizer, str.strip and str.startswith work on characters.      *)
(* The tree is an arena: nodes[n] is a node object, children hold indices, *)
(* and the parser's stack holds indices (Python object references).        *)
(***************************************************************************)
EXTENDS Integers, Sequences, FiniteSets, TLC

VARIABLES source, tokens, pc, i, nodes, stack, ast, frames, log, runs, html

vars == <<source, tokens, pc, i, nodes, stack, ast, frames, log, runs, html>>

(***************************************************************************)
(* Bounds                                                                  *)
(***************************************************************************)
\* number of fragments a source document is assembled from
MaxFrags == 4
\* number of tokens of a token sequence handed to parse directly
MaxTokens == 3

(***************************************************************************)
(* Strings                                                                 *)
(***************************************************************************)
python_open == <<"<", "p", "y", "t", "h", "o", "n", ">">>
python_close == <<"<", "/", "p", "y", "t", "h", "o", "n", ">">>
c_open == <<"<", "c", ">">>
c_close == <<"<", "/", "c", ">">>
print_open == <<"<", "p", "r", "i", "n", "t", ">">>
print_close == <<"<", "/", "p", "r", "i", "n", "t", ">">>
css_open == <<"<", "c", "s", "s", ">">>
css_close == <<"<", "/", "c", "s", "s", ">">>
js_open == <<"<", "j", "s", ">">>
js_close == <<"<", "/", "j", "s", ">">>
h1_open == <<"<", "h", "1", ">">>
h1_close == <<"<", "/", "h", "1", ">">>
style_open == <<"<", "s", "t", "y", "l", "e", ">">>
style_close == <<"<", "/", "s", "t", "y", "l", "e", ">">>
script_open == <<"<", "s", "c", "r", "i", "p", "t", ">">>
script_close == <<"<", "/", "s", "c", "r", "i", "p", "t", ">">>
div_open == <<"<", "d", "i", "v", ">">>
div_close == <<"<", "/", "d", "i", "v", ">">>
root_tag == <<"r", "o", "o", "t">>
pre_open == <<"<", "p", "r", "e", ">", "<", "c", "o", "d", "e", ">">>
pre_close == <<"<", "/", "c", "o", "d", "e", ">", "<", "/", "p", "r", "e", ">">>

RECURSIVE Concat(_)
\* "".join(ss) for a sequence ss of strings
Concat(ss) == IF ss = <<>> THEN <<>> ELSE Head(ss) \o Concat(Tail(ss))

\* s.startswith(p)
startswith(s, p) == Len(s) >= Len(p) /\ SubSeq(s, 1, Len(p)) = p

\* the characters str.strip() removes
IsSpace(ch) == ch \in {" ", "\n", "\t"}

RECURSIVE lstrip(_)
lstrip(s) == IF s # <<>> /\ IsSpace(Head(s)) THEN lstrip(Tail(s)) ELSE s

RECURSIVE rstrip(_)
rstrip(s) ==
    IF s # <<>> /\ IsSpace(s[Len(s)]) THEN rstrip(SubSeq(s, 1, Len(s) - 1)) ELSE s

\* s.strip(): leading and trailing whitespace removed, nothing else
strip(s) == rstrip(lstrip(s))

(***************************************************************************)
(* Lexer / Tokenizer                                                       *)
(***************************************************************************)
\* end of the lazy match of <.*?> that starts at p (DOTALL: any character),
\* 0 when no '>' follows
TagEnd(s, p) ==
    LET ends == {e \in (p + 1)..Len(s) : s[e] = ">"}
    IN  IF ends = {} THEN 0 ELSE CHOOSE e \in ends : \A f \in ends : e <= f

\* end of the greedy match of [^<>]+ that starts at p
TextEnd(s, p) ==
    LET stops == {e \in p..Len(s) : s[e] \in {"<", ">"}}
    IN  IF stops = {} THEN Len(s)
        ELSE (CHOOSE e \in stops : \A f \in stops : e <= f) - 1

RECURSIVE FindIter(_, _)
\* TOKEN_REGEX.finditer(s) from position p on: at each position the first
\* alternative is tried, then the second; a position where neither matches
\* is passed over and the scan resumes at the next one
FindIter(s, p) ==
    IF p > Len(s) THEN <<>>
    ELSE IF s[p] = "<" /\ TagEnd(s, p) # 0
         THEN <<[type |-> "TAG", value |-> SubSeq(s, p, TagEnd(s, p))]>>
              \o FindIter(s, TagEnd(s, p) + 1)
    ELSE IF s[p] \notin {"<", ">"}
         THEN <<[type |-> "TEXT", value |-> SubSeq(s, p, TextEnd(s, p))]>>
              \o FindIter(s, TextEnd(s, p) + 1)
    ELSE FindIter(s, p + 1)

tokenize(s) == FindIter(s, 1)

\* the raw text of a token sequence, concatenated in order
RawText(ts) == Concat([k \in 1..Len(ts) |-> ts[k].value])

(***************************************************************************)
(* Parser                                                                  *)
(***************************************************************************)
HTML_TAGS ==
    (print_open :> h1_open) @@ (print_close :> h1_close) @@
    (css_open :> style_open) @@ (css_close :> style_close) @@
    (js_open :> script_open) @@ (js_close :> script_close)

\* HTML_TAGS.values()
HTML_TAGS_values == {HTML_TAGS[k] : k \in DOMAIN HTML_TAGS}

TextNode(text) == [kind |-> "TextNode", val |-> text, children |-> <<>>]
HtmlTagNode(tag) == [kind |-> "HtmlTagNode", val |-> tag, children |-> <<>>]
PythonNode(code) == [kind |-> "PythonNode", val |-> code, children |-> <<>>]
CNode(code) == [kind |-> "CNode", val |-> code, children |-> <<>>]

\* stack[-1]
Top(st) == st[Len(st)]

\* ns[parent].children.append(node), node being a new object
AppendChild(ns, parent, node) ==
    [Append(ns, node) EXCEPT ![parent].children = Append(@, Len(ns) + 1)]

RECURSIVE Capture(_, _, _)
\* the inner while loop of a code block: from index j (0-based) the raw
\* text of the tokens is accumulated until a token whose text is the closer
\* or the end of the tokens; yields the text and the index the loop stops at
Capture(ts, j, closer) ==
    IF j < Len(ts) /\ ts[j + 1].value # closer
    THEN LET rest == Capture(ts, j + 1, closer)
         IN  [code |-> ts[j + 1].value \o rest.code, j |-> rest.j]
    ELSE [code |-> <<>>, j |-> j]

\* stack.pop() without its guard
PopUnguarded(st) == SubSeq(st, 1, Len(st) - 1)

\* if len(stack) > 1: stack.pop()
PopFrame(st) == IF Len(st) > 1 THEN SubSeq(st, 1, Len(st) - 1) ELSE st

\* an IndexError leaves parse (stack[-1] or stack[0] of an empty stack)
Raise ==
    /\ pc' = "raised"
    /\ UNCHANGED <<source, tokens, i, nodes, stack, ast, frames, log, runs, html>>

\* the position of parse is inside the while loop, at token tokens[i]
AtToken == pc = "parse" /\ i < Len(tokens)

tok == tokens[i + 1]

\* lines 54-55: the stack holds the root node, i = 0
ParseEnter ==
    /\ pc = "parse_enter"
    /\ nodes' = <<HtmlTagNode(root_tag)>>
    /\ stack' = <<1>>
    /\ i' = 0
    /\ pc' = "parse"
    /\ UNCHANGED <<source, tokens, ast, frames, log, runs, html>>

\* lines 59-60
ParseText ==
    /\ AtToken
    /\ tok.type = "TEXT"
    /\ IF stack = <<>> THEN Raise
       ELSE /\ nodes' = AppendChild(nodes, Top(stack), TextNode(tok.value))
            /\ i' = i + 1
            /\ UNCHANGED <<source, tokens, pc, stack, ast, frames, log, runs, html>>

\* lines 63-69 and 91
ParsePython ==
    /\ AtToken
    /\ tok.type = "TAG"
    /\ tok.value = python_open
    /\ LET cap == Capture(tokens, i + 1, python_close)
       IN  IF stack = <<>> THEN Raise
           ELSE /\ nodes' = AppendChild(nodes, Top(stack), PythonNode(strip(cap.code)))
                /\ i' = cap.j + 1
                /\ UNCHANGED <<source, tokens, pc, stack, ast, frames, log, runs, html>>

\* lines 71-77 and 91
ParseC ==
    /\ AtToken
    /\ tok.type = "TAG"
    /\ tok.value # python_open
    /\ tok.value = c_open
    /\ LET cap == Capture(tokens, i + 1, c_close)
       IN  IF stack = <<>> THEN Raise
           ELSE /\ nodes' = AppendChild(nodes, Top(stack), CNode(strip(cap.code)))
                /\ i' = cap.j + 1
                /\ UNCHANGED <<source, tokens, pc, stack, ast, frames, log, runs, html>>

\* lines 79-85
ParseHtmlTag ==
    /\ AtToken
    /\ tok.type = "TAG"
    /\ tok.value \notin {python_open, c_open}
    /\ tok.value \in DOMAIN HTML_TAGS
    /\ IF stack = <<>> THEN Raise
       ELSE /\ nodes' = AppendChild(nodes, Top(stack), HtmlTagNode(HTML_TAGS[tok.value]))
            /\ stack' = IF ~startswith(tok.value, <<"<", "/">>)
                        THEN Append(stack, Len(nodes) + 1)
                        ELSE stack
            /\ i' = i + 1
            /\ UNCHANGED <<source, tokens, pc, ast, frames, log, runs, html>>

\* lines 86-87
ParseConverted ==
    /\ AtToken
    /\ tok.type = "TAG"
    /\ tok.value \notin {python_open, c_open}
    /\ tok.value \notin DOMAIN HTML_TAGS
    /\ tok.value \in HTML_TAGS_values
    /\ i' = i + 1
    /\ UNCHANGED <<source, tokens, pc, nodes, stack, ast, frames, log, runs, html>>

\* lines 88-90
ParseClosing ==
    /\ AtToken
    /\ tok.type = "TAG"
    /\ tok.value \notin {python_open, c_open}
    /\ tok.value \notin DOMAIN HTML_TAGS
    /\ tok.value \notin HTML_TAGS_values
    /\ startswith(tok.value, <<"<", "/">>)
    /\ stack' = PopFrame(stack)
    /\ i' = i + 1
    /\ UNCHANGED <<source, tokens, pc, nodes, ast, frames, log, runs, html>>

\* a TAG token no branch of lines 63-90 takes: only line 91 runs
ParseOther ==
    /\ AtToken
    /\ tok.type = "TAG"
    /\ tok.value \notin {python_open, c_open}
    /\ tok.value \notin DOMAIN HTML_TAGS
    /\ tok.value \notin HTML_TAGS_values
    /\ ~startswith(tok.value, <<"<", "/">>)
    /\ i' = i + 1
    /\ UNCHANGED <<source, tokens, pc, nodes, stack, ast, frames, log, runs, html>>

\* line 92, and line 150: execute_nodes is entered on the returned node
ParseReturn ==
    /\ pc = "parse"
    /\ i >= Len(tokens)
    /\ IF stack = <<>> THEN Raise
       ELSE /\ ast' = stack[1]
            /\ frames' = <<[node |-> stack[1], k |-> 1]>>
            /\ pc' = "execute"
            /\ UNCHANGED <<source, tokens, i, nodes, stack, log, runs, html>>

(***************************************************************************)
(* Code generation                                                         *)
(***************************************************************************)
RECURSIVE generate_html(_, _)
generate_html(ns, n) ==
    LET node == ns[n]
    IN  CASE node.kind = "TextNode" -> node.val
          [] node.kind = "HtmlTagNode" ->
                LET inner == Concat([k \in 1..Len(node.children) |->
                                        generate_html(ns, node.children[k])])
                IN  IF node.val = root_tag THEN inner
                    ELSE <<"<">> \o node.val \o <<">">> \o inner
                         \o <<"<", "/">> \o node.val \o <<">">>
          [] node.kind = "PythonNode" -> pre_open \o node.val \o pre_close
          [] node.kind = "CNode" -> pre_open \o node.val \o pre_close
          [] OTHER -> <<>>

(***************************************************************************)
(* execute_nodes                                                           *)
(*                                                                         *)
(* frames is the call stack of the recursion: the node of each call and    *)
(* the position k of its for loop.  log is what the calls print (stdout    *)
(* and stderr, in order); runs is what happened to each block.             *)
(***************************************************************************)
\* open(python_file, "w") fails; exec returns; exec raises an Exception;
\* exec raises a BaseException that is no Exception (SystemExit from
\* sys.exit(), KeyboardInterrupt)
PythonOutcomes == {"write_error", "ok", "exception", "base_exception"}

\* open(c_file, "w") fails; gcc cannot be started (FileNotFoundError); gcc
\* exits non-zero (CalledProcessError, check=True); the executable cannot
\* be started (OSError); the executable exits non-zero; it exits with 0
COutcomes == {"write_error", "gcc_spawn_error", "compile_error",
              "exe_spawn_error", "exe_nonzero", "ok"}

\* the outcomes in which the block did not run to a successful end
Failures == {"write_error", "exception", "base_exception", "gcc_spawn_error",
             "compile_error", "exe_spawn_error", "exe_nonzero"}

\* what lines 115-121 print for a Python block
PythonPrints(o) ==
    CASE o = "write_error" -> <<>>
      [] o = "ok" -> <<"Extracted Python code">>
      [] o = "exception" -> <<"Extracted Python code", "Error executing Python code">>
      [] o = "base_exception" -> <<"Extracted Python code">>

\* whether lines 115-121 end in an exception no handler of execute_nodes takes
PythonPropagates(o) == o \in {"write_error", "base_exception"}

\* what lines 125-134 print for a C block
CPrints(o) ==
    CASE o = "write_error" -> <<>>
      [] o = "gcc_spawn_error" -> <<"Extracted C code">>
      [] o = "compile_error" -> <<"Extracted C code", "Error compiling/running C code">>
      [] o = "exe_spawn_error" -> <<"Extracted C code", "Compiled C code">>
      [] o = "exe_nonzero" -> <<"Extracted C code", "Compiled C code", "C output">>
      [] o = "ok" -> <<"Extracted C code", "Compiled C code", "C output">>

\* whether lines 125-134 end in an exception the except clause does not take
CPropagates(o) == o \in {"write_error", "gcc_spawn_error", "exe_spawn_error"}

\* the prints ms, as log entries for block n
Entries(n, ms) == [k \in 1..Len(ms) |-> [node |-> n, msg |-> ms[k]]]

Frame == frames[Len(frames)]

\* the for loop of the innermost call is at a child
AtChild ==
    /\ pc = "execute"
    /\ frames # <<>>
    /\ Frame.k <= Len(nodes[Frame.node].children)

child == nodes[Frame.node].children[Frame.k]

\* the for loop moves to the next child
Advance == [frames EXCEPT ![Len(frames)].k = @ + 1]

\* lines 113-121
ExecPython ==
    /\ AtChild
    /\ nodes[child].kind = "PythonNode"
    /\ \E o \in PythonOutcomes :
          /\ log' = log \o Entries(child, PythonPrints(o))
          /\ runs' = Append(runs, [node |-> child, outcome |-> o])
          /\ IF PythonPropagates(o)
             THEN pc' = "crashed" /\ frames' = frames
             ELSE pc' = pc /\ frames' = Advance
    /\ UNCHANGED <<source, tokens, i, nodes, stack, ast, html>>

\* lines 122-134
ExecC ==
    /\ AtChild
    /\ nodes[child].kind = "CNode"
    /\ \E o \in COutcomes :
          /\ log' = log \o Entries(child, CPrints(o))
          /\ runs' = Append(runs, [node |-> child, outcome |-> o])
          /\ IF CPropagates(o)
             THEN pc' = "crashed" /\ frames' = frames
             ELSE pc' = pc /\ frames' = Advance
    /\ UNCHANGED <<source, tokens, i, nodes, stack, ast, html>>

\* lines 135-136: the recursive call
ExecHtmlTag ==
    /\ AtChild
    /\ nodes[child].kind = "HtmlTagNode"
    /\ frames' = Append(Advance, [node |-> child, k |-> 1])
    /\ UNCHANGED <<source, tokens, pc, i, nodes, stack, ast, log, runs, html>>

\* a TextNode child: no branch of the loop body takes it
ExecText ==
    /\ AtChild
    /\ nodes[child].kind = "TextNode"
    /\ frames' = Advance
    /\ UNCHANGED <<source, tokens, pc, i, nodes, stack, ast, log, runs, html>>

\* the for loop of the innermost call is over: the call returns; the return
\* of the outermost call is the return of line 150
ExecReturn ==
    /\ pc = "execute"
    /\ frames # <<>>
    /\ Frame.k > Len(nodes[Frame.node].children)
    /\ frames' = SubSeq(frames, 1, Len(frames) - 1)
    /\ pc' = IF Len(frames) = 1 THEN "write" ELSE pc
    /\ UNCHANGED <<source, tokens, i, nodes, stack, ast, log, runs, html>>

(***************************************************************************)
(* compile_webthon_file                                                    *)
(***************************************************************************)
NoFile == [written |-> FALSE, body |-> <<>>]

\* lines 148-149: the source that was read is tokenized and parse is called
Tokenize ==
    /\ pc = "tokenize"
    /\ tokens' = tokenize(source)
    /\ pc' = "parse_enter"
    /\ UNCHANGED <<source, i, nodes, stack, ast, frames, log, runs, html>>

\* lines 151-164: the body between the fixed head and tail of the page is
\* generate_html(ast); the page is written to output_html
WriteHtml ==
    /\ pc = "write"
    /\ html' = [written |-> TRUE, body |-> generate_html(nodes, ast)]
    /\ pc' = "done"
    /\ UNCHANGED <<source, tokens, i, nodes, stack, ast, frames, log, runs>>

(***************************************************************************)
(* Inputs                                                                  *)
(***************************************************************************)
\* the pieces a source document is assembled from
Fragments ==
    {css_open, css_close, python_open, python_close, c_open, c_close,
     div_open, div_close, style_close, <<"x">>, <<" ">>, <<"<">>, <<">">>}

\* the documents assembled from at most max fragments
Sources(max) ==
    {Concat(fs) : fs \in UNION {[1..n -> Fragments] : n \in 0..max}}

\* the tokens of a token sequence handed to parse
TokenSet ==
    {[type |-> "TAG", value |-> v] :
        v \in {css_open, css_close, python_open, python_close, c_open, c_close,
               div_open, div_close, style_close}}
    \cup {[type |-> "TEXT", value |-> v] : v \in {<<" ">>, <<" ", "x", " ">>}}

TokenSeqs == UNION {[1..n -> TokenSet] : n \in 0..MaxTokens}

Blank ==
    /\ i = 0
    /\ nodes = <<>>
    /\ stack = <<>>
    /\ ast = 0
    /\ frames = <<>>
    /\ log = <<>>
    /\ runs = <<>>
    /\ html = NoFile

\* compile_webthon_file has read the source file
Init ==
    /\ source \in Sources(MaxFrags)
    /\ tokens = <<>>
    /\ pc = "tokenize"
    /\ Blank

Next ==
    \/ Tokenize
    \/ ParseEnter
    \/ ParseText
    \/ ParsePython
    \/ ParseC
    \/ ParseHtmlTag
    \/ ParseConverted
    \/ ParseClosing
    \/ ParseOther
    \/ ParseReturn
    \/ ExecPython
    \/ ExecC
    \/ ExecHtmlTag
    \/ ExecText
    \/ ExecReturn
    \/ WriteHtml

Spec == Init /\ [][Next]_vars

\* parse is called on a token sequence
InitParse ==
    /\ source = <<>>
    /\ tokens \in TokenSeqs
    /\ pc = "parse_enter"
    /\ Blank

NextParse ==
    \/ ParseEnter
    \/ ParseText
    \/ ParsePython
    \/ ParseC
    \/ ParseHtmlTag
    \/ ParseConverted
    \/ ParseClosing
    \/ ParseOther
    \/ ParseReturn

\* parse runs on: the loop is sequential code
SpecParse == InitParse /\ [][NextParse]_vars /\ WF_vars(NextParse)

(***************************************************************************)
(* Helpers of the properties                                               *)
(***************************************************************************)
\* pat occurs in s at position p
IsAt(s, p, pat) ==
    /\ p >= 1
    /\ p + Len(pat) - 1 <= Len(s)
    /\ SubSeq(s, p, p + Len(pat) - 1) = pat

\* pat occurs somewhere in s
Contains(s, pat) == \E p \in 1..(Len(s) + 1) : IsAt(s, p, pat)

\* the first position from which pat occurs in s at or after from, else 0
FirstAt(s, pat, from) ==
    LET ps == {p \in from..Len(s) : IsAt(s, p, pat)}
    IN  IF ps = {} THEN 0 ELSE CHOOSE p \in ps : \A q \in ps : p <= q

\* s has no angle bracket
NoAngle(s) == \A k \in 1..Len(s) : s[k] \notin {"<", ">"}

\* the closing spelling of an opening tag spelling
CloserOf(open) == <<"<", "/">> \o Tail(open)

OpeningVocabulary == {print_open, css_open, js_open}
ClosingVocabulary == {print_close, css_close, js_close}

CodeKinds == {"PythonNode", "CNode"}

\* the rendered children of node n
Inner(n) ==
    Concat([k \in 1..Len(nodes[n].children) |-> generate_html(nodes, nodes[n].children[k])])

RECURSIVE CodeOrder(_, _)
\* the code block nodes below n in depth-first left-to-right order
CodeOrder(ns, n) ==
    IF ns[n].kind \in CodeKinds THEN <<n>>
    ELSE Concat([k \in 1..Len(ns[n].children) |-> CodeOrder(ns, ns[n].children[k])])

\* the blocks that were run, in the order they were run
RunOrder == [k \in 1..Len(runs) |-> runs[k].node]

\* compile_webthon_file is over: it returned or an exception left it
Terminated == pc \in {"done", "crashed"}

ErrorMessages == {"Error executing Python code", "Error compiling/running C code"}

(***************************************************************************)
(* Properties                                                              *)
(***************************************************************************)
\* C1: tokenize is lossless: the raw text of the tokens, concatenated in
\* order, is the input, for every input (a '>' without '<' before it and a
\* '<' without '>' after it included).
C1_TokenizeLossless == pc # "tokenize" => RawText(tokens) = source

\* C2: an element node is rendered as the replacement opening tag, its
\* rendered children and the replacement closing tag, the original spelling
\* never; '<css>x</css>' renders as '<style>x</style>'.
C2_VocabularySubstitution ==
    pc = "done" =>
        /\ \A n \in 2..Len(nodes) :
              nodes[n].kind = "HtmlTagNode" =>
                  \E k \in OpeningVocabulary :
                      generate_html(nodes, n) =
                          HTML_TAGS[k] \o Inner(n) \o HTML_TAGS[CloserOf(k)]
        /\ source = css_open \o <<"x">> \o css_close =>
              html.body = style_open \o <<"x">> \o style_close

\* the interior of the code block a source starts with: the characters
\* between the opener and the first occurrence of the closer
Interior(open, close) ==
    SubSeq(source, Len(open) + 1, FirstAt(source, close, Len(open) + 1) - 1)

\* the source starts with a whole code block and its interior has an angle
\* bracket
OpaqueCase(open, close) ==
    /\ startswith(source, open)
    /\ FirstAt(source, close, Len(open) + 1) # 0
    /\ ~NoAngle(Interior(open, close))

\* the code node of that block holds the interior, and the page shows it
HeldVerbatim(kind, open, close) ==
    /\ \E n \in 1..Len(nodes) :
          /\ nodes[n].kind = kind
          /\ nodes[n].val = strip(Interior(open, close))
    /\ Contains(html.body, pre_open \o strip(Interior(open, close)) \o pre_close)

\* C3: foreign-code opacity: the interior of a <python> or <c> block that
\* has characters that look like tags is held verbatim (outer whitespace
\* stripped) by the code node and is in the rendered placeholder; no
\* character of it is lost.
C3_ForeignCodeOpacity ==
    pc = "done" =>
        /\ OpaqueCase(python_open, python_close) =>
              HeldVerbatim("PythonNode", python_open, python_close)
        /\ OpaqueCase(c_open, c_close) => HeldVerbatim("CNode", c_open, c_close)

\* C4: a closing vocabulary tag pops the top frame when the stack holds
\* more than the root frame, is ignored otherwise, and adds no node.
C4_ClosingVocabularyPops ==
    [][(AtToken /\ tok.type = "TAG" /\ tok.value \in ClosingVocabulary) =>
          (nodes' = nodes /\ stack' = PopFrame(stack))]_vars

\* a Tag token '<' name '>' that is no foreign-code tag and not in the
\* vocabulary
PlainTag ==
    /\ AtToken
    /\ tok.type = "TAG"
    /\ Len(tok.value) > 2
    /\ NoAngle(SubSeq(tok.value, 2, Len(tok.value) - 1))
    /\ tok.value # <<"<", "/", ">">>
    /\ tok.value \notin {python_open, python_close, c_open, c_close}
    /\ tok.value \notin DOMAIN HTML_TAGS
    /\ tok.value \notin HTML_TAGS_values

\* C5: a plain Tag token that does not begin with '</' becomes an element
\* node of its own spelling, a child of the top of the stack and the new
\* top; one that begins with '</' pops the stack when above the root.
C5_PlainTagPassThrough ==
    [][PlainTag =>
          IF startswith(tok.value, <<"<", "/">>)
          THEN nodes' = nodes /\ stack' = PopFrame(stack)
          ELSE /\ Len(nodes') = Len(nodes) + 1
               /\ nodes'[Len(nodes')].kind = "HtmlTagNode"
               /\ nodes'[Len(nodes')].val \in
                     {tok.value, SubSeq(tok.value, 2, Len(tok.value) - 1)}
               /\ nodes'[Top(stack)].children =
                     Append(nodes[Top(stack)].children, Len(nodes'))
               /\ stack' = Append(stack, Len(nodes'))]_vars

\* C6: no failure of a code block aborts the compilation: every code block
\* is executed and the HTML file is written.
C6_FailureNeverAborts ==
    Terminated =>
        /\ html.written
        /\ \A n \in 1..Len(nodes) :
              nodes[n].kind \in CodeKinds => \E k \in 1..Len(runs) : runs[k].node = n

\* C7: every failed execution of a block has an error diagnostic and not
\* the message of a successful run.
C7_FailureReported ==
    \A k \in 1..Len(runs) :
        runs[k].outcome \in Failures =>
            /\ \E m \in 1..Len(log) :
                  log[m].node = runs[k].node /\ log[m].msg \in ErrorMessages
            /\ \A m \in 1..Len(log) :
                  log[m].node = runs[k].node => log[m].msg # "C output"

\* C8: execute_nodes runs each code block exactly once, in depth-first
\* left-to-right order, each block's prints before the next block's.
C8_ExecutionOrder ==
    Terminated =>
        /\ RunOrder = CodeOrder(nodes, ast)
        /\ \A m, q \in 1..Len(log) :
              m < q => \E a, b \in 1..Len(runs) :
                          /\ a <= b
                          /\ runs[a].node = log[m].node
                          /\ runs[b].node = log[q].node

\* C9: a code node is rendered as an escaped preformatted block: between
\* <pre><code> and </code></pre> there is no raw angle bracket, and the
\* body never has the <python> or <c> spelling.
C9_CodeBlocksEscaped ==
    pc = "done" =>
        /\ \A n \in 1..Len(nodes) :
              nodes[n].kind \in CodeKinds =>
                  LET g == generate_html(nodes, n)
                  IN  /\ startswith(g, pre_open)
                      /\ IsAt(g, Len(g) - Len(pre_close) + 1, pre_close)
                      /\ NoAngle(SubSeq(g, Len(pre_open) + 1, Len(g) - Len(pre_close)))
        /\ ~Contains(html.body, python_open)
        /\ ~Contains(html.body, c_open)

\* the token positions of foreign-code openers (1-based)
Openers == {p \in 1..Len(tokens) :
               tokens[p].type = "TAG" /\ tokens[p].value \in {python_open, c_open}}

\* the first foreign-code opener: the loop reaches it, nothing before it
\* starts a capture
FirstOpener == CHOOSE p \in Openers : \A q \in Openers : p <= q

\* the first opener has no closer after it
Unterminated ==
    /\ Openers # {}
    /\ \A q \in (FirstOpener + 1)..Len(tokens) :
          tokens[q].value # CloserOf(tokens[FirstOpener].value)

\* parse is inside its loop or has returned
Parsing == pc \in {"parse", "execute"}

C10_Safety ==
    /\ pc # "raised"
    /\ i <= Len(tokens) + 1
    /\ Parsing =>
          /\ stack # <<>>
          /\ stack[1] = 1
          /\ nodes[1].kind = "HtmlTagNode"
          /\ nodes[1].val = root_tag
    /\ pc = "execute" =>
          /\ ast = 1
          /\ Unterminated =>
                /\ nodes[Len(nodes)].kind =
                      (IF tokens[FirstOpener].value = python_open
                       THEN "PythonNode" ELSE "CNode")
                /\ nodes[Len(nodes)].val =
                      strip(RawText(SubSeq(tokens, FirstOpener + 1, Len(tokens))))

\* C10: parse is total: on every token sequence it returns, without
\* raising, the root element; its stack is never empty; the code node of an
\* unterminated opener holds the raw text of all remaining tokens, stripped.
C10_ParseTotal == []C10_Safety /\ <>(pc = "execute")

\* parse has returned from a sequence with an unmatched closer and then an
\* unterminated opener that captured text
C10_Witness ==
    /\ pc = "execute"
    /\ Unterminated
    /\ FirstOpener > 1
    /\ startswith(tokens[1].value, <<"<", "/">>)
    /\ nodes[Len(nodes)].val # <<>>
    /\ RawText(SubSeq(tokens, FirstOpener + 1, Len(tokens))) # nodes[Len(nodes)].val

====
